---- MODULE Spec2Model ----
(***************************************************************************)
(* Stroke descriptions (epaint/src/stroke.rs) and arc geometry             *)
(* (epaint/src/shapes/arc_shape.rs) of egui's epaint crate.                *)
(*                                                                         *)
(* f32 values are modelled as a small binary floating-point format: a      *)
(* finite value is an integer number of units of 1/Scale that has at most  *)
(* MantBits significant bits (round to nearest, ties to even), next to     *)
(* NaN, +inf, -inf and -0.0.  Arithmetic on finite values never yields     *)
(* -0.0 (it yields +0.0 there); -0.0 only enters as an input.  The         *)
(* arithmetic is written as functions on F32, so that an operand is        *)
(* evaluated once.                                                         *)
(***************************************************************************)
EXTENDS Integers, Sequences, FiniteSets, TLC

VARIABLES stroke, path, arc, ret, ntransforms

vars == <<stroke, path, arc, ret, ntransforms>>

(***************************************************************************)
(* Bounds of the model.                                                    *)
(***************************************************************************)
\* units per 1.0 of the modelled f32 format
Scale == 128
\* significant bits of the modelled f32 format
MantBits == 8
\* number of transform calls followed from one constructed arc
MaxTransforms == 2

(***************************************************************************)
(* f32                                                                     *)
(***************************************************************************)
F(n) == [k |-> "fin", v |-> n]
NaN == [k |-> "nan", v |-> 0]
PInf == [k |-> "inf", v |-> 1]
NInf == [k |-> "inf", v |-> -1]
NegZero == [k |-> "nz", v |-> 0]

\* the values of an f32
F32 == [k : {"fin", "nz", "nan", "inf"}, v : Int]

IsNaN(a) == a.k = "nan"
IsInf(a) == a.k = "inf"
IsFin(a) == a.k \in {"fin", "nz"}
IsZero(a) == IsFin(a) /\ a.v = 0

Abs(n) == IF n < 0 THEN -n ELSE n
Sgn(n) == IF n < 0 THEN -1 ELSE IF n > 0 THEN 1 ELSE 0

RECURSIVE Pow2(_)
Pow2(e) == IF e <= 0 THEN 1 ELSE 2 * Pow2(e - 1)

RECURSIVE BitLen(_)
BitLen(n) == IF n <= 0 THEN 0 ELSE 1 + BitLen(n \div 2)

\* the spacing of the representable values around f >= 0
Quantum[f \in Int] == IF f < Pow2(MantBits) THEN 1 ELSE Pow2(BitLen(f) - MantBits)

\* N / D (N >= 0, D > 0) rounded to the nearest multiple of q, ties to even
RndStep[N \in Int, D \in Int, q \in Int] ==
    LET m == N \div (D * q)
        r == N - m * (D * q)
    IN  IF 2 * r < D * q THEN m * q
        ELSE IF 2 * r > D * q THEN (m + 1) * q
        ELSE (IF m % 2 = 0 THEN m ELSE m + 1) * q

\* N / D (N >= 0, D > 0) rounded to the nearest representable value, ties to even
RndQPos[N \in Int, D \in Int] == RndStep[N, D, Quantum[N \div D]]

\* N / D (D > 0) rounded to the nearest representable value
RndQ[N \in Int, D \in Int] == Sgn(N) * RndQPos[Abs(N), D]

FNeg[a \in F32] == IF IsNaN(a) THEN NaN ELSE [k |-> IF a.k = "nz" THEN "fin" ELSE a.k, v |-> -a.v]

\* a + b
FAdd[a \in F32, b \in F32] ==
    IF IsNaN(a) \/ IsNaN(b) THEN NaN
    ELSE IF IsInf(a) /\ IsInf(b) THEN (IF a.v = b.v THEN a ELSE NaN)
    ELSE IF IsInf(a) THEN a
    ELSE IF IsInf(b) THEN b
    ELSE F(RndQ[a.v + b.v, 1])

\* a - b
FSub[a \in F32, b \in F32] == FAdd[a, FNeg[b]]

\* a * b
FMul[a \in F32, b \in F32] ==
    IF IsNaN(a) \/ IsNaN(b) THEN NaN
    ELSE IF IsInf(a) \/ IsInf(b)
         THEN (IF IsZero(a) \/ IsZero(b) THEN NaN
               ELSE IF Sgn(a.v) * Sgn(b.v) > 0 THEN PInf ELSE NInf)
    ELSE F(RndQ[a.v * b.v, Scale])

\* a / b
FDiv[a \in F32, b \in F32] ==
    IF IsNaN(a) \/ IsNaN(b) THEN NaN
    ELSE IF IsInf(a)
         THEN (IF IsInf(b) THEN NaN
               ELSE IF a.v * (IF b.v < 0 THEN -1 ELSE 1) > 0 THEN PInf ELSE NInf)
    ELSE IF IsInf(b) THEN F(0)
    ELSE IF b.v = 0
         THEN (IF a.v = 0 THEN NaN ELSE IF a.v > 0 THEN PInf ELSE NInf)
    ELSE F(RndQ[a.v * Scale * Sgn(b.v), Abs(b.v)])

\* a == b, a < b, a <= b (all false on NaN; -0.0 == 0.0)
FEq(a, b) == ~IsNaN(a) /\ ~IsNaN(b) /\ (IsFin(a) <=> IsFin(b)) /\ a.v = b.v
FLt(a, b) ==
    /\ ~IsNaN(a) /\ ~IsNaN(b)
    /\ IF IsInf(a) THEN a.v < 0 /\ ~(IsInf(b) /\ b.v < 0)
       ELSE IF IsInf(b) THEN b.v > 0
       ELSE a.v < b.v
FLe(a, b) == FLt(a, b) \/ FEq(a, b)

\* f32::min and f32::max: the other operand when one is NaN
FMin[a \in F32, b \in F32] == IF IsNaN(a) THEN b ELSE IF IsNaN(b) THEN a ELSE IF FLt(b, a) THEN b ELSE a
FMax[a \in F32, b \in F32] == IF IsNaN(a) THEN b ELSE IF IsNaN(b) THEN a ELSE IF FLt(a, b) THEN b ELSE a

\* f32::ceil
FCeil[a \in F32] == IF IsFin(a) THEN F(-((-a.v) \div Scale) * Scale) ELSE a

\* usize::MAX, standing above every finite quotient the model produces
UsizeMax == 2147483647

\* `x as usize`: saturating, NaN to 0
AsUsize[a \in F32] ==
    IF IsNaN(a) THEN 0
    ELSE IF IsInf(a) THEN (IF a.v > 0 THEN UsizeMax ELSE 0)
    ELSE IF a.v <= 0 THEN 0
    ELSE a.v \div Scale

\* `i as f32`
FromUsize[i \in Int] == F(RndQ[i * Scale, 1])

\* std::f32::consts::PI
PI == F(RndQ[355 * Scale, 113])

\* cos(x / Scale) for |x| <= pi/2, by Bhaskara's approximation; pi is the value of PI
CosB[x \in Int, pi \in Int] == RndQ[Scale * (pi * pi - 4 * x * x), pi * pi + x * x]

\* cos of an angle x in (-pi, pi]
CosR[x \in Int, pi \in Int] ==
    IF 2 * Abs(x) <= pi THEN CosB[x, pi] ELSE -CosB[pi - Abs(x), pi]

\* an angle m in [0, 2 pi) brought into (-pi, pi]
Wrap[m \in Int, pi \in Int] == IF m > pi THEN m - 2 * pi ELSE m

\* f32::cos (exact at 0: cos(0) = 1)
FCos[a \in F32] ==
    IF ~IsFin(a) THEN NaN ELSE F(CosR[Wrap[a.v % (2 * PI.v), PI.v], PI.v])

\* sin(x / Scale) for 0 <= x <= pi, by Bhaskara's approximation
SinB[x \in Int, pi \in Int] ==
    RndQ[Scale * 16 * x * (pi - x), 5 * pi * pi - 4 * x * (pi - x)]

\* sin of an angle m in [0, 2 pi)
SinR[m \in Int, pi \in Int] == IF m <= pi THEN SinB[m, pi] ELSE -SinB[m - pi, pi]

\* f32::sin (exact at 0: sin(0) = 0)
FSin[a \in F32] ==
    IF ~IsFin(a) THEN NaN ELSE F(SinR[a.v % (2 * PI.v), PI.v])

\* atan(z / Scale) for 0 <= z <= Scale, in units
AtanZ[z \in Int, pi \in Int] == RndQ[z * (250 * pi + 273 * (Scale - z)), 1000 * Scale]

\* atan2(ay, ax) for ay >= 0, ax >= 0: the angle in the first quadrant
AtanQ1[ay \in Int, ax \in Int, pi \in Int] ==
    IF ax = 0 /\ ay = 0 THEN 0
    ELSE IF ay <= ax THEN AtanZ[RndQ[ay * Scale, ax], pi]
    ELSE RndQ[pi, 2] - AtanZ[RndQ[ax * Scale, ay], pi]

\* the first-quadrant angle a moved to the quadrant of (x, y)
AtanSigned[y \in Int, x \in Int, a \in Int, pi \in Int] ==
    (IF y < 0 THEN -1 ELSE 1) * (IF x >= 0 THEN a ELSE pi - a)

\* f32::atan2: y.atan2(x), in [-PI, PI], atan2(0, 0) = 0
FAtan2[y \in F32, x \in F32] ==
    IF ~IsFin(y) \/ ~IsFin(x) THEN NaN
    ELSE F(RndQ[AtanSigned[y.v, x.v, AtanQ1[Abs(y.v), Abs(x.v), PI.v], PI.v], 1])

(***************************************************************************)
(* Colors.  Color32 is four bytes <<r, g, b, a>>, premultiplied.           *)
(***************************************************************************)
Color32_TRANSPARENT == <<0, 0, 0, 0>>
Color32_BLUE == <<0, 0, 255, 255>>
\* an additive color: alpha 0 and still not Color32::TRANSPARENT
Color32_ADDITIVE == <<255, 0, 0, 0>>
\* Color32::default(): all four bytes 0
Color32_default == <<0, 0, 0, 0>>

Solid(c) == [mode |-> "Solid", color |-> c, cb |-> 0]
\* a position-dependent paint function, known by the identity of its closure
UV(f) == [mode |-> "UV", color |-> Color32_TRANSPARENT, cb |-> f]
ColorMode_TRANSPARENT == Solid(Color32_TRANSPARENT)

\* ColorMode == ColorMode: solid colors by value, a paint function equals nothing
ColorMode_eq(a, b) == a.mode = "Solid" /\ b.mode = "Solid" /\ a.color = b.color

(***************************************************************************)
(* stroke.rs: LineCap, LineJoin, StrokeKind, Stroke                        *)
(***************************************************************************)
LineCap == {"Butt", "Round", "Square"}
LineJoin == {"Miter", "Round", "Bevel"}
StrokeKind == {"Inside", "Middle", "Outside"}
LineCap_default == "Butt"
LineJoin_default == "Miter"

\* f32::default()
f32_default == F(0)

\* #[derive(Default)] on Stroke: every field's own default
Stroke_default ==
    [width |-> f32_default, color |-> Color32_default, cap |-> LineCap_default,
     join |-> LineJoin_default, miter_limit |-> f32_default]

Stroke_NONE ==
    [width |-> F(0), color |-> Color32_TRANSPARENT, cap |-> "Butt",
     join |-> "Miter", miter_limit |-> F(4 * Scale)]

Stroke_new(width, color) ==
    [width |-> width, color |-> color, cap |-> "Butt",
     join |-> "Miter", miter_limit |-> F(4 * Scale)]

Stroke_is_empty(s) == FLe(s.width, F(0)) \/ s.color = Color32_TRANSPARENT

Stroke_with_line_cap(s, cap) == [s EXCEPT !.cap = cap]
Stroke_with_line_join(s, join) == [s EXCEPT !.join = join]
Stroke_with_miter_limit(s, miter_limit) == [s EXCEPT !.miter_limit = miter_limit]

\* #[derive(PartialEq)] on Stroke
Stroke_eq(a, b) ==
    /\ FEq(a.width, b.width) /\ a.color = b.color /\ a.cap = b.cap
    /\ a.join = b.join /\ FEq(a.miter_limit, b.miter_limit)

(***************************************************************************)
(* stroke.rs: PathStroke                                                   *)
(***************************************************************************)
PathStroke_NONE ==
    [width |-> F(0), color |-> ColorMode_TRANSPARENT, kind |-> "Middle",
     cap |-> "Butt", join |-> "Miter", miter_limit |-> F(4 * Scale)]

PathStroke_default == PathStroke_NONE

PathStroke_new(width, color) ==
    [width |-> width, color |-> Solid(color), kind |-> "Middle",
     cap |-> "Butt", join |-> "Miter", miter_limit |-> F(4 * Scale)]

PathStroke_new_uv(width, callback) ==
    [width |-> width, color |-> UV(callback), kind |-> "Middle",
     cap |-> "Butt", join |-> "Miter", miter_limit |-> F(4 * Scale)]

PathStroke_with_kind(p, kind) == [p EXCEPT !.kind = kind]
PathStroke_middle(p) == [p EXCEPT !.kind = "Middle"]
PathStroke_outside(p) == [p EXCEPT !.kind = "Outside"]
PathStroke_inside(p) == [p EXCEPT !.kind = "Inside"]
PathStroke_with_line_cap(p, cap) == [p EXCEPT !.cap = cap]
PathStroke_with_line_join(p, join) == [p EXCEPT !.join = join]
PathStroke_with_miter_limit(p, miter_limit) == [p EXCEPT !.miter_limit = miter_limit]

PathStroke_is_empty_AnyUV(p) == FLe(p.width, F(0)) \/ p.color.color = Color32_TRANSPARENT
PathStroke_is_empty(p) == FLe(p.width, F(0)) \/ ColorMode_eq(p.color, ColorMode_TRANSPARENT)

\* impl From<Stroke> for PathStroke
PathStroke_from_KeepShape(value) ==
    [width |-> value.width, color |-> Solid(value.color), kind |-> "Middle",
     cap |-> value.cap, join |-> value.join, miter_limit |-> value.miter_limit]
PathStroke_from_DropJoin(value) ==
    IF Stroke_is_empty(value) THEN PathStroke_NONE
    ELSE [width |-> value.width, color |-> Solid(value.color), kind |-> "Middle",
          cap |-> value.cap, join |-> "Miter", miter_limit |-> value.miter_limit]
PathStroke_from(value) ==
    IF Stroke_is_empty(value) THEN PathStroke_NONE
    ELSE [width |-> value.width, color |-> Solid(value.color), kind |-> "Middle",
          cap |-> value.cap, join |-> value.join, miter_limit |-> value.miter_limit]

\* #[derive(PartialEq)] on PathStroke
PathStroke_eq(a, b) ==
    /\ FEq(a.width, b.width) /\ ColorMode_eq(a.color, b.color) /\ a.kind = b.kind
    /\ a.cap = b.cap /\ a.join = b.join /\ FEq(a.miter_limit, b.miter_limit)

\* what hashing emath::OrderedFloat(f) writes: one byte 0 for +-0.0, one byte 1
\* for NaN, the bits otherwise
OrderedFloat_hash(f) ==
    IF IsZero(f) THEN <<0>> ELSE IF IsNaN(f) THEN <<1>> ELSE <<f.k, f.v>>

\* impl Hash for PathStroke: the values written to the hasher, in order
PathStroke_hash_WithColor(p) ==
    <<OrderedFloat_hash(p.width), p.color, p.kind, p.cap, p.join,
      OrderedFloat_hash(p.miter_limit)>>
PathStroke_hash(p) ==
    <<OrderedFloat_hash(p.width), p.kind, p.cap, p.join,
      OrderedFloat_hash(p.miter_limit)>>

(***************************************************************************)
(* Inputs.                                                                 *)
(***************************************************************************)
WidthInputs == {F(0), NegZero, NaN, F(-Scale), F(8 * Scale)}
MiterInputs == {F(0), F(10 * Scale)}
ColorInputs == {Color32_TRANSPARENT, Color32_BLUE, Color32_ADDITIVE}
PathColorInputs == {Color32_TRANSPARENT, Color32_BLUE}
CallbackInputs == {1, 2}

\* the value an operation returned, with the operation and its argument
Ret(op, arg, val) == [op |-> op, arg |-> arg, val |-> val]

(***************************************************************************)
(* ArcShape::default(), the arc the stroke machines leave alone            *)
(***************************************************************************)
Pos2(x, y) == [x |-> x, y |-> y]
Pos2_ZERO == Pos2(F(0), F(0))
\* the values of a Pos2 or Vec2
Pos2s == [x : F32, y : F32]

ArcShape_default ==
    [center |-> Pos2_ZERO, start |-> Pos2_ZERO, end |-> Pos2_ZERO,
     radii |-> Pos2_ZERO, x_rotation |-> F(0), large_arc |-> FALSE,
     sweep |-> FALSE, start_angle |-> F(0), fill |-> Color32_TRANSPARENT,
     stroke |-> PathStroke_default]

(***************************************************************************)
(* The Stroke machine: one Stroke value, built and converted.              *)
(***************************************************************************)
InitStroke ==
    /\ stroke = Stroke_NONE
    /\ path = PathStroke_NONE
    /\ arc = ArcShape_default
    /\ ret = Ret("init", 0, 0)
    /\ ntransforms = 0

DoStrokeDefault ==
    /\ stroke' = Stroke_default
    /\ ret' = Ret("Stroke::default", 0, Stroke_default)
    /\ UNCHANGED <<path, arc, ntransforms>>

DoStrokeNew ==
    \E w \in WidthInputs, c \in ColorInputs :
        /\ stroke' = Stroke_new(w, c)
        /\ ret' = Ret("Stroke::new", <<w, c>>, stroke')
        /\ UNCHANGED <<path, arc, ntransforms>>

\* impl From<(f32, Color)> for Stroke
DoStrokeFromTuple ==
    \E w \in WidthInputs, c \in ColorInputs :
        /\ stroke' = Stroke_new(w, c)
        /\ ret' = Ret("Stroke::from", <<w, c>>, stroke')
        /\ UNCHANGED <<path, arc, ntransforms>>

DoStrokeWithLineCap ==
    \E cap \in LineCap :
        /\ stroke' = Stroke_with_line_cap(stroke, cap)
        /\ ret' = Ret("with_line_cap", cap, stroke')
        /\ UNCHANGED <<path, arc, ntransforms>>

DoStrokeWithLineJoin ==
    \E join \in LineJoin :
        /\ stroke' = Stroke_with_line_join(stroke, join)
        /\ ret' = Ret("with_line_join", join, stroke')
        /\ UNCHANGED <<path, arc, ntransforms>>

DoStrokeWithMiterLimit ==
    \E m \in MiterInputs :
        /\ stroke' = Stroke_with_miter_limit(stroke, m)
        /\ ret' = Ret("with_miter_limit", m, stroke')
        /\ UNCHANGED <<path, arc, ntransforms>>

DoStrokeIsEmpty ==
    /\ ret' = Ret("is_empty", stroke, Stroke_is_empty(stroke))
    /\ UNCHANGED <<stroke, path, arc, ntransforms>>

\* PathStroke::from(stroke)
DoPathStrokeFrom ==
    /\ ret' = Ret("PathStroke::from", stroke, PathStroke_from(stroke))
    /\ UNCHANGED <<stroke, path, arc, ntransforms>>

NextStroke ==
    \/ DoStrokeDefault
    \/ DoStrokeNew
    \/ DoStrokeFromTuple
    \/ DoStrokeWithLineCap
    \/ DoStrokeWithLineJoin
    \/ DoStrokeWithMiterLimit
    \/ DoStrokeIsEmpty
    \/ DoPathStrokeFrom

SpecStroke == InitStroke /\ [][NextStroke]_vars

(***************************************************************************)
(* The PathStroke machine: one PathStroke value, built, tested and hashed. *)
(***************************************************************************)
InitPath == InitStroke

DoPathDefault ==
    /\ path' = PathStroke_default
    /\ ret' = Ret("PathStroke::default", 0, path')
    /\ UNCHANGED <<stroke, arc, ntransforms>>

DoPathNew ==
    \E w \in WidthInputs, c \in PathColorInputs :
        /\ path' = PathStroke_new(w, c)
        /\ ret' = Ret("PathStroke::new", <<w, c>>, path')
        /\ UNCHANGED <<stroke, arc, ntransforms>>

\* impl From<(f32, Color)> for PathStroke
DoPathFromTuple ==
    \E w \in WidthInputs, c \in PathColorInputs :
        /\ path' = PathStroke_new(w, c)
        /\ ret' = Ret("PathStroke::from", <<w, c>>, path')
        /\ UNCHANGED <<stroke, arc, ntransforms>>

DoPathNewUv ==
    \E w \in WidthInputs, f \in CallbackInputs :
        /\ path' = PathStroke_new_uv(w, f)
        /\ ret' = Ret("PathStroke::new_uv", <<w, f>>, path')
        /\ UNCHANGED <<stroke, arc, ntransforms>>

DoPathWithKind ==
    \E kind \in StrokeKind :
        /\ path' = PathStroke_with_kind(path, kind)
        /\ ret' = Ret("with_kind", kind, path')
        /\ UNCHANGED <<stroke, arc, ntransforms>>

DoPathMiddle ==
    /\ path' = PathStroke_middle(path)
    /\ ret' = Ret("middle", 0, path')
    /\ UNCHANGED <<stroke, arc, ntransforms>>

DoPathOutside ==
    /\ path' = PathStroke_outside(path)
    /\ ret' = Ret("outside", 0, path')
    /\ UNCHANGED <<stroke, arc, ntransforms>>

DoPathInside ==
    /\ path' = PathStroke_inside(path)
    /\ ret' = Ret("inside", 0, path')
    /\ UNCHANGED <<stroke, arc, ntransforms>>

DoPathWithLineCap ==
    \E cap \in LineCap :
        /\ path' = PathStroke_with_line_cap(path, cap)
        /\ ret' = Ret("with_line_cap", cap, path')
        /\ UNCHANGED <<stroke, arc, ntransforms>>

DoPathWithLineJoin ==
    \E join \in LineJoin :
        /\ path' = PathStroke_with_line_join(path, join)
        /\ ret' = Ret("with_line_join", join, path')
        /\ UNCHANGED <<stroke, arc, ntransforms>>

DoPathWithMiterLimit ==
    \E m \in MiterInputs :
        /\ path' = PathStroke_with_miter_limit(path, m)
        /\ ret' = Ret("with_miter_limit", m, path')
        /\ UNCHANGED <<stroke, arc, ntransforms>>

DoPathIsEmpty ==
    /\ ret' = Ret("is_empty", path, PathStroke_is_empty(path))
    /\ UNCHANGED <<stroke, path, arc, ntransforms>>

DoPathHash ==
    /\ ret' = Ret("hash", path, PathStroke_hash(path))
    /\ UNCHANGED <<stroke, path, arc, ntransforms>>

NextPath ==
    \/ DoPathDefault
    \/ DoPathNew
    \/ DoPathFromTuple
    \/ DoPathNewUv
    \/ DoPathWithKind
    \/ DoPathMiddle
    \/ DoPathOutside
    \/ DoPathInside
    \/ DoPathWithLineCap
    \/ DoPathWithLineJoin
    \/ DoPathWithMiterLimit
    \/ DoPathIsEmpty
    \/ DoPathHash

SpecPath == InitPath /\ [][NextPath]_vars

(***************************************************************************)
(* Claims about Stroke and PathStroke.                                     *)
(***************************************************************************)

\* C1: Stroke::default() is the same value as Stroke::NONE: width 0, color
\* transparent, cap Butt, join Miter and miter_limit 4.0.
C1_DefaultIsNone ==
    ret.op = "Stroke::default" =>
        /\ Stroke_eq(ret.val, Stroke_NONE)
        /\ FEq(ret.val.width, F(0))
        /\ ret.val.color = Color32_TRANSPARENT
        /\ ret.val.cap = "Butt"
        /\ ret.val.join = "Miter"
        /\ FEq(ret.val.miter_limit, F(4 * Scale))

\* the precondition of C2 and C3, as the claims state it
C2_EmptyAsClaimed(s) == FLe(s.width, F(0)) \/ s.color = Color32_TRANSPARENT

\* C2: for every empty Stroke s (width <= 0 or color equal to the transparent
\* color), whatever its width, cap, join and miter_limit, PathStroke::from(s) is
\* exactly PathStroke::NONE: width 0, Solid(transparent), Middle, Butt, Miter, 4.0.
C2_EmptyConvertsToNone ==
    (ret.op = "PathStroke::from" /\ C2_EmptyAsClaimed(ret.arg)) =>
        /\ ret.val = PathStroke_NONE
        /\ ret.val = [width |-> F(0), color |-> Solid(<<0, 0, 0, 0>>), kind |-> "Middle",
                      cap |-> "Butt", join |-> "Miter", miter_limit |-> F(4 * Scale)]

\* an empty stroke that carries a shape (cap, join, miter limit, width) was converted
C2_Witness ==
    /\ ret.op = "PathStroke::from"
    /\ ret.arg.color = Color32_TRANSPARENT
    /\ ret.arg.width = F(8 * Scale)
    /\ ret.arg.cap = "Round"
    /\ ret.arg.join = "Bevel"
    /\ ret.arg.miter_limit = F(10 * Scale)

\* C3, the conversion: a Stroke that is not empty converts to the PathStroke with
\* its width, Solid(its color), its cap, join and miter_limit, and kind Middle.
C3_Converted ==
    (ret.op = "PathStroke::from" /\ ~C2_EmptyAsClaimed(ret.arg)) =>
        ret.val = [width |-> ret.arg.width, color |-> Solid(ret.arg.color),
                   kind |-> "Middle", cap |-> ret.arg.cap, join |-> ret.arg.join,
                   miter_limit |-> ret.arg.miter_limit]

\* C3, the builders: Stroke::new sets miter_limit 4.0, and with_line_cap and
\* with_line_join set the cap or join they are given and keep every other field.
C3_Built ==
    /\ ret'.op = "Stroke::new" =>
           /\ stroke'.width = ret'.arg[1] /\ stroke'.color = ret'.arg[2]
           /\ stroke'.miter_limit = F(4 * Scale)
    /\ ret'.op = "with_line_cap" =>
           /\ stroke'.cap = ret'.arg
           /\ stroke'.width = stroke.width /\ stroke'.color = stroke.color
           /\ stroke'.join = stroke.join /\ stroke'.miter_limit = stroke.miter_limit
    /\ ret'.op = "with_line_join" =>
           /\ stroke'.join = ret'.arg
           /\ stroke'.width = stroke.width /\ stroke'.color = stroke.color
           /\ stroke'.cap = stroke.cap /\ stroke'.miter_limit = stroke.miter_limit

\* C3: for every Stroke s that is not empty, PathStroke::from(s) has width =
\* s.width, color = Solid(s.color), cap = s.cap, join = s.join, miter_limit =
\* s.miter_limit and kind = Middle; a stroke built with Stroke::new(w, c) and then
\* with_line_cap / with_line_join keeps those cap and join values and miter_limit
\* 4.0 through the conversion.
C3_NonEmptyPreserved == [](C3_Converted) /\ [][C3_Built]_vars

\* Stroke::new(8.0, BLUE).with_line_cap(Round).with_line_join(Bevel) was converted
C3_Witness ==
    /\ ret.op = "PathStroke::from"
    /\ ret.arg = [width |-> F(8 * Scale), color |-> Color32_BLUE, cap |-> "Round",
                  join |-> "Bevel", miter_limit |-> F(4 * Scale)]
    /\ ret.val.width = F(8 * Scale)
    /\ ret.val.cap = "Round"
    /\ ret.val.join = "Bevel"

\* C4: for every PathStroke p, p.is_empty() is true if and only if p.width <= 0 or
\* p.color is the solid transparent color; a PathStroke with a UV callback color
\* and width > 0 is never empty, and the result does not depend on kind, cap,
\* join or miter_limit.
C4_PathIsEmptyIff ==
    ret.op = "is_empty" =>
        /\ ret.val <=> (\/ FLe(ret.arg.width, F(0))
                        \/ (ret.arg.color.mode = "Solid"
                            /\ ret.arg.color.color = Color32_TRANSPARENT))
        /\ (ret.arg.color.mode = "UV" /\ FLt(F(0), ret.arg.width)) => ~ret.val
        /\ \A kind \in StrokeKind, cap \in LineCap, join \in LineJoin,
              m \in MiterInputs \cup {F(4 * Scale)} :
               PathStroke_is_empty([ret.arg EXCEPT !.kind = kind, !.cap = cap,
                                    !.join = join, !.miter_limit = m]) = ret.val

\* is_empty was asked of a PathStroke with a UV callback color and width > 0
C4_Witness ==
    /\ ret.op = "is_empty"
    /\ ret.arg.color.mode = "UV"
    /\ ret.arg.width = F(8 * Scale)
    /\ ret.arg.kind = "Outside"
    /\ ret.val = FALSE

\* every PathStroke the inputs can build
PathStrokes ==
    [width : WidthInputs,
     color : {Solid(c) : c \in PathColorInputs} \cup {UV(f) : f \in CallbackInputs},
     kind : StrokeKind, cap : LineCap, join : LineJoin,
     miter_limit : MiterInputs \cup {F(4 * Scale)}]

\* two f32 agree: the same bits, or equal as floats
C9_SameF(a, b) == a = b \/ FEq(a, b)

C9_Agree(p, q) ==
    /\ C9_SameF(p.width, q.width) /\ p.kind = q.kind /\ p.cap = q.cap
    /\ p.join = q.join /\ C9_SameF(p.miter_limit, q.miter_limit)

\* C9: any two PathStrokes that agree on (width, kind, cap, join, miter_limit)
\* produce the same hash, whatever their color modes; so any two PathStrokes
\* that compare equal also hash equal.
C9_HashIgnoresColor ==
    ret.op = "hash" =>
        \A q \in PathStrokes :
            /\ C9_Agree(ret.arg, q) => PathStroke_hash(q) = ret.val
            /\ PathStroke_eq(ret.arg, q) => PathStroke_hash(q) = ret.val

\* a PathStroke with a UV callback and width -0.0 was hashed: it agrees with
\* strokes of other callbacks, of solid colors, and of width +0.0
C9_Witness ==
    /\ ret.op = "hash"
    /\ ret.arg.color = UV(1)
    /\ ret.arg.width = NegZero
    /\ \E q \in PathStrokes :
           /\ q.color = UV(2) /\ q.width = F(0) /\ C9_Agree(ret.arg, q)
    /\ \E q \in PathStrokes : q.color.mode = "Solid" /\ C9_Agree(ret.arg, q)

(***************************************************************************)
(* emath: Pos2, Vec2, Rect, TSTransform                                    *)
(***************************************************************************)
Pos2_min(p, q) == Pos2(FMin[p.x, q.x], FMin[p.y, q.y])
Pos2_max(p, q) == Pos2(FMax[p.x, q.x], FMax[p.y, q.y])

Rect_from_min_max(min, max) == [min |-> min, max |-> max]
\* Rect::NOTHING: min = +inf, max = -inf
Rect_NOTHING == Rect_from_min_max(Pos2(PInf, PInf), Pos2(NInf, NInf))
Rect_extend_with(r, p) == Rect_from_min_max(Pos2_min(r.min, p), Pos2_max(r.max, p))
RECURSIVE Rect_extend_all(_, _)
Rect_extend_all(r, points) ==
    IF points = <<>> THEN r
    ELSE Rect_extend_all(Rect_extend_with(r, Head(points)), Tail(points))
Rect_from_points(points) == Rect_extend_all(Rect_NOTHING, points)
Rect_from_pos(p) == Rect_from_min_max(p, p)
Rect_expand2(r, amnt) ==
    Rect_from_min_max(Pos2(FSub[r.min.x, amnt.x], FSub[r.min.y, amnt.y]),
                      Pos2(FAdd[r.max.x, amnt.x], FAdd[r.max.y, amnt.y]))
Rect_expand(r, amnt) == Rect_expand2(r, Pos2(amnt, amnt))
Rect_union(r, other) ==
    Rect_from_min_max(Pos2_min(r.min, other.min), Pos2_max(r.max, other.max))
Rect_contains(r, p) ==
    /\ FLe(r.min.x, p.x) /\ FLe(p.x, r.max.x)
    /\ FLe(r.min.y, p.y) /\ FLe(p.y, r.max.y)

\* TSTransform * Pos2: scaling * pos + translation
TSTransform_mul(t, pos) ==
    Pos2(FAdd[FMul[t.scaling, pos.x], t.translation.x],
         FAdd[FMul[t.scaling, pos.y], t.translation.y])

(***************************************************************************)
(* arc_shape.rs: ArcShape                                                  *)
(***************************************************************************)
ArcShape_new(center, start, end, radii, x_rotation, large_arc, sweep, fill, stroke_) ==
    [center |-> center, start |-> start, end |-> end, radii |-> radii,
     x_rotation |-> x_rotation, large_arc |-> large_arc, sweep |-> sweep,
     start_angle |-> FAtan2[FSub[start.y, center.y], FSub[start.x, center.x]],
     fill |-> fill, stroke |-> stroke_]

visual_bounding_rect(self) ==
    LET r1 == Rect_from_points(<<self.start, self.end>>)
        stroke_expansion == FDiv[self.stroke.width, F(2 * Scale)]
        r2 == Rect_expand(r1, stroke_expansion)
        r3 == Rect_union(r2, Rect_from_pos(self.center))
    IN  Rect_expand2(r3, self.radii)

\* angle, its last step: a negative angle is raised by one full turn
normalize_angle[a \in F32] ==
    IF FLt(a, F(0)) THEN FAdd[a, FMul[F(2 * Scale), PI]] ELSE a

\* the angle of the arc in radians
angle(self) ==
    LET start_angle == FAtan2[FSub[self.start.y, self.center.y],
                              FSub[self.start.x, self.center.x]]
        end_angle == FAtan2[FSub[self.end.y, self.center.y],
                            FSub[self.end.x, self.center.x]]
    IN  normalize_angle[FSub[end_angle, start_angle]]

arc_length(self) ==
    LET radius == FDiv[FAdd[self.radii.x, self.radii.y], F(2 * Scale)]
    IN  FMul[radius, angle(self)]

\* point_at, its last step: the point of the ellipse at current_angle
point_at_angle[center \in Pos2s, radii \in Pos2s, current_angle \in F32] ==
    Pos2(FAdd[center.x, FMul[radii.x, FCos[current_angle]]],
         FAdd[center.y, FMul[radii.y, FSin[current_angle]]])

point_at(self, t) ==
    point_at_angle[self.center, self.radii,
                   FAdd[self.start_angle, FMul[angle(self), t]]]

\* Option<f32>
None == [some |-> FALSE, value |-> F(0)]
Some(x) == [some |-> TRUE, value |-> x]
\* tolerance.unwrap_or(0.1)
unwrap_tolerance(tolerance) ==
    IF tolerance.some THEN tolerance.value ELSE F(RndQ[Scale, 10])

\* flatten, its segment count: (arc_length / tolerance).ceil() as usize
num_segments(self, tolerance) ==
    AsUsize[FCeil[FDiv[arc_length(self), unwrap_tolerance(tolerance)]]]

\* flatten, its loop: the parameter of point i
flatten_t[i \in Int, n \in Int] == FDiv[FromUsize[i], FromUsize[n]]

\* flatten, its loop over 0..=num_segments: point i is element i + 1
flatten_loop(self, n) ==
    [j \in 1..(n + 1) |-> point_at(self, flatten_t[j - 1, n])]

flatten(self, tolerance) == flatten_loop(self, num_segments(self, tolerance))

transform_AlsoCenter(self, t) ==
    [self EXCEPT !.center = TSTransform_mul(t, self.center),
                 !.start = TSTransform_mul(t, self.start),
                 !.end = TSTransform_mul(t, self.end),
                 !.radii = Pos2(FMul[self.radii.x, t.scaling], FMul[self.radii.y, t.scaling]),
                 !.stroke.width = FMul[self.stroke.width, t.scaling]]
transform(self, t) ==
    [self EXCEPT !.start = TSTransform_mul(t, self.start),
                 !.end = TSTransform_mul(t, self.end),
                 !.radii = Pos2(FMul[self.radii.x, t.scaling], FMul[self.radii.y, t.scaling]),
                 !.stroke.width = FMul[self.stroke.width, t.scaling]]

(***************************************************************************)
(* The arc machine: one ArcShape, constructed, transformed, measured.      *)
(***************************************************************************)
P(x, y) == Pos2(F(x * Scale), F(y * Scale))

CenterInputs == {P(0, 0), P(1, 1)}
\* the last point lies one unit of the format above the x axis
PointInputs == {P(1, 0), P(2, 0), P(0, 1), Pos2(F(Scale), F(1))}
RadiiInputs == {P(0, 0), P(1, 2), P(-1, -1)}
\* x_rotation, large_arc, sweep, fill and stroke
StyleInputs ==
    {[x_rotation |-> F(0), large_arc |-> FALSE, sweep |-> FALSE,
      fill |-> Color32_TRANSPARENT, stroke |-> PathStroke_new(F(2 * Scale), Color32_BLUE)],
     [x_rotation |-> F(Scale), large_arc |-> TRUE, sweep |-> FALSE,
      fill |-> Color32_BLUE, stroke |-> PathStroke_new_uv(F(-4 * Scale), 1)],
     [x_rotation |-> F(0), large_arc |-> FALSE, sweep |-> TRUE,
      fill |-> Color32_TRANSPARENT, stroke |-> PathStroke_from(Stroke_NONE)]}
TransformInputs ==
    {[scaling |-> F(2 * Scale), translation |-> P(5, 5)],
     [scaling |-> F(Scale \div 2), translation |-> P(-1, 0)]}
ToleranceInputs == {None, Some(F(Scale)), Some(F(2 * Scale)), Some(F(0)), Some(F(-Scale))}

\* the state after construction: ArcShape::default() or ArcShape::new(..)
Init ==
    /\ stroke = Stroke_NONE
    /\ path = PathStroke_NONE
    /\ \/ arc = ArcShape_default
       \/ \E center \in CenterInputs, start \in PointInputs, end \in PointInputs,
             radii \in RadiiInputs, st \in StyleInputs :
              arc = ArcShape_new(center, start, end, radii, st.x_rotation,
                                 st.large_arc, st.sweep, st.fill, st.stroke)
    /\ ret = Ret("init", 0, 0)
    /\ ntransforms = 0

\* The caller: construct, transform some times, then ask one question.  A
\* question leaves the arc as it is, so no arc is lost by ending there.
Asked == ret.op \notin {"init", "transform"}

DoVisualBoundingRect ==
    /\ ~Asked
    /\ ret' = Ret("visual_bounding_rect", 0, visual_bounding_rect(arc))
    /\ UNCHANGED <<stroke, path, arc, ntransforms>>

\* a count of usize::MAX segments asks for more points than memory holds:
\* the call does not return
DoFlatten ==
    \E tolerance \in ToleranceInputs :
        \E n \in {num_segments(arc, tolerance)} :
            /\ ~Asked
            /\ ret' = IF n = UsizeMax
                      THEN Ret("flatten aborted", tolerance, 0)
                      ELSE Ret("flatten", tolerance, flatten_loop(arc, n))
            /\ UNCHANGED <<stroke, path, arc, ntransforms>>

DoTransform ==
    \E t \in TransformInputs :
        /\ ~Asked
        /\ ntransforms < MaxTransforms
        /\ arc' = transform(arc, t)
        /\ ntransforms' = ntransforms + 1
        /\ ret' = Ret("transform", t, 0)
        /\ UNCHANGED <<stroke, path>>

Next ==
    \/ DoVisualBoundingRect
    \/ DoFlatten
    \/ DoTransform

Spec == Init /\ [][Next]_vars

(***************************************************************************)
(* Claims about ArcShape, under Spec.                                      *)
(***************************************************************************)
\* what the last flatten call was asked and what it gave
Flattened == ret.op = "flatten"
FlattenCalled == ret.op \in {"flatten", "flatten aborted"}
\* the segment count of the last flatten call: one less than the points it
\* returned, usize::MAX when it could not return them
SegmentCount == IF Flattened THEN Len(ret.val) - 1 ELSE UsizeMax

\* C5: on an arc whose angle span is 0, flatten returns exactly one point
\* and that point is point_at(0), whatever the tolerance.
C5_ZeroSpanGivesStartPoint ==
    (Flattened /\ FEq(angle(arc), F(0))) =>
        /\ Len(ret.val) = 1
        /\ ret.val[1] = point_at(arc, F(0))

\* C6: for a fixed arc and tolerances t1 < t2, the segment count of
\* flatten(t1) is at least the segment count of flatten(t2).
C6_FinerToleranceMoreSegments ==
    FlattenCalled =>
        \A other \in ToleranceInputs :
            /\ FLt(unwrap_tolerance(ret.arg), unwrap_tolerance(other)) =>
                   SegmentCount >= num_segments(arc, other)
            /\ FLt(unwrap_tolerance(other), unwrap_tolerance(ret.arg)) =>
                   num_segments(arc, other) >= SegmentCount

\* C7: the rectangle returned by visual_bounding_rect contains center,
\* start and end, whatever the stroke width and the radii.
C7_RectContainsCenterStartEnd ==
    ret.op = "visual_bounding_rect" =>
        /\ Rect_contains(ret.val, arc.center)
        /\ Rect_contains(ret.val, arc.start)
        /\ Rect_contains(ret.val, arc.end)

\* C8: every transform step replaces start and end by scaling * p +
\* translation, multiplies both radii and stroke.width by scaling, and leaves
\* center, start_angle, x_rotation, large_arc, sweep, fill and the stroke's
\* color, kind, cap, join and miter_limit as they were; at every step of any
\* sequence of transforms.
C8_Step ==
    ret'.op = "transform" /\ ntransforms' = ntransforms + 1 =>
        /\ arc'.start = Pos2(FAdd[FMul[ret'.arg.scaling, arc.start.x], ret'.arg.translation.x],
                             FAdd[FMul[ret'.arg.scaling, arc.start.y], ret'.arg.translation.y])
        /\ arc'.end = Pos2(FAdd[FMul[ret'.arg.scaling, arc.end.x], ret'.arg.translation.x],
                           FAdd[FMul[ret'.arg.scaling, arc.end.y], ret'.arg.translation.y])
        /\ arc'.radii = Pos2(FMul[arc.radii.x, ret'.arg.scaling],
                             FMul[arc.radii.y, ret'.arg.scaling])
        /\ arc'.stroke.width = FMul[arc.stroke.width, ret'.arg.scaling]
        /\ arc'.center = arc.center
        /\ arc'.start_angle = arc.start_angle
        /\ arc'.x_rotation = arc.x_rotation
        /\ arc'.large_arc = arc.large_arc
        /\ arc'.sweep = arc.sweep
        /\ arc'.fill = arc.fill
        /\ arc'.stroke.color = arc.stroke.color
        /\ arc'.stroke.kind = arc.stroke.kind
        /\ arc'.stroke.cap = arc.stroke.cap
        /\ arc'.stroke.join = arc.stroke.join
        /\ arc'.stroke.miter_limit = arc.stroke.miter_limit
C8_TransformFrame == [][C8_Step]_vars
\* a second transform in a row has acted on an arc whose center is not the
\* origin and whose radii and stroke width are not zero
C8_Witness ==
    /\ ret.op = "transform"
    /\ ntransforms >= 2
    /\ arc.center = P(1, 1)
    /\ ~IsZero(arc.radii.x)
    /\ ~IsZero(arc.stroke.width)

\* C10: for every arc and tolerance, flatten returns a non-empty sequence
\* whose first point is the arc at parameter 0 and whose last point is the
\* arc at parameter 1.
C10_FlattenEndsAtArcEnds ==
    FlattenCalled =>
        /\ Flattened
        /\ Len(ret.val) >= 1
        /\ ret.val[1] = point_at(arc, F(0))
        /\ ret.val[Len(ret.val)] = point_at(arc, F(Scale))

\* C11: the angle span that flatten computes from the stored start, end and
\* center lies in [0, 2 pi): it is never negative and never a full turn.
C11_AngleBelowFullTurn ==
    FlattenCalled =>
        /\ FLe(F(0), angle(arc))
        /\ FLt(angle(arc), FMul[F(2 * Scale), PI])

====
